---- MODULE Spec2Model ----
(***************************************************************************)
(* State-machine model of src/read_data.py: the mesh-topology pipeline     *)
(*   process_file -> remove_unwanted_triangles -> split_triangles ->       *)
(*   get_connected_components -> add_weird_triangles_to_components ->      *)
(*   orient_component (for every component).                               *)
(* Python sets are iterated and popped in an order the program does not    *)
(* control; every such choice is a nondeterministic choice here.           *)
(***************************************************************************)
EXTENDS Integers, Sequences, FiniteSets, TLC

(* ------------------------------ bounds -------------------------------- *)

\* Vertices of the exhaustively enumerated meshes.
NumPoints == 5

\* Sparse meshes: every set of at most MaxTriangles triangles over the
\* vertices 0 .. NumPoints-1 is an input.
MaxTriangles == 4

\* Dense meshes: every set that lacks at most MaxMissing of the triangles
\* over the vertices 0 .. NumPoints-1 is an input.
MaxMissing == 3

\* Length of the exhaustively enumerated raw record streams (any listing order
\* of the three points of a record, repeated records included).
MaxRecords == 2

\* Raw points the short record streams draw from.
NumRawPoints == 3

\* The largest input (number of triangles) whose subsets are enumerated one
\* by one where a property speaks of all subsets of the input.
MaxEnumerated == 8

(* ------------------------------ inputs -------------------------------- *)

\* A raw point of the mesh file: three coordinates.  Vertex v of an enumerated
\* mesh sits at Coord(v); the code only compares points for equality.
Coord(v) == <<v, v * v, 1>>

\* All triangles <<a, b, c>> with a < b < c over the vertices 0 .. n-1.
AllTriangles(n) ==
    {t \in (0 .. n - 1) \X (0 .. n - 1) \X (0 .. n - 1) : t[1] < t[2] /\ t[2] < t[3]}

LexLess(s, t) ==
    \/ s[1] < t[1]
    \/ s[1] = t[1] /\ s[2] < t[2]
    \/ s[1] = t[1] /\ s[2] = t[2] /\ s[3] < t[3]

\* The records of a mesh file holding the triangles T, listed in
\* lexicographic order, each as its three raw points.
RECURSIVE RecordsOf(_)
RecordsOf(T) ==
    IF T = {} THEN <<>>
    ELSE LET t == CHOOSE x \in T : \A y \in T \ {x} : LexLess(x, y)
         IN  <<<<Coord(t[1]), Coord(t[2]), Coord(t[3])>>>> \o RecordsOf(T \ {t})

\* The meshes over NumPoints vertices with few triangles, and those with
\* nearly all of them.
SparseMeshes ==
    {T \in SUBSET AllTriangles(NumPoints) : Cardinality(T) <= MaxTriangles}

DenseMeshes ==
    {AllTriangles(NumPoints) \ D :
        D \in {X \in SUBSET AllTriangles(NumPoints) : Cardinality(X) <= MaxMissing}}

\* A tetrahedron and a triangle on its edge 0-1 with two free edges.
PendantTetrahedron ==
    {<<0, 1, 2>>, <<0, 1, 3>>, <<0, 2, 3>>, <<1, 2, 3>>, <<0, 1, 4>>}

\* Two tetrahedra glued along the face 0-1-2, without that face: a closed
\* orientable surface of six triangles.
Bipyramid ==
    {<<0, 1, 3>>, <<0, 2, 3>>, <<1, 2, 3>>, <<0, 1, 4>>, <<0, 2, 4>>, <<1, 2, 4>>}

\* A tetrahedron with a tail of two triangles: the second loses its support
\* only when the first is gone.
TailedTetrahedron ==
    {<<0, 1, 2>>, <<0, 1, 3>>, <<0, 2, 3>>, <<1, 2, 3>>, <<0, 1, 4>>, <<0, 4, 5>>}

\* Two tetrahedra with a common edge 0-1 (four triangles on that edge).
TwoTetrahedra ==
    {<<0, 1, 2>>, <<0, 1, 3>>, <<0, 2, 3>>, <<1, 2, 3>>,
     <<0, 1, 4>>, <<0, 1, 5>>, <<0, 4, 5>>, <<1, 4, 5>>}

\* The octahedron: a closed orientable surface, every edge on two triangles.
Octahedron ==
    {<<0, 1, 2>>, <<0, 2, 3>>, <<0, 3, 4>>, <<0, 1, 4>>,
     <<1, 2, 5>>, <<2, 3, 5>>, <<3, 4, 5>>, <<1, 4, 5>>}

\* The six-vertex triangulation of the projective plane: closed, every edge
\* on two triangles, not orientable.
ProjectivePlane ==
    {<<0, 1, 2>>, <<0, 2, 3>>, <<0, 3, 4>>, <<0, 4, 5>>, <<0, 1, 5>>,
     <<1, 2, 4>>, <<2, 3, 5>>, <<1, 3, 4>>, <<2, 4, 5>>, <<1, 3, 5>>}

\* Four triangles on the edge 0-1, closed by six triangles with two triangles
\* per edge: one component after reattachment.
FourPageBook ==
    {<<0, 1, 2>>, <<0, 1, 3>>, <<0, 1, 4>>, <<0, 1, 5>>, <<0, 2, 3>>,
     <<0, 4, 5>>, <<1, 2, 4>>, <<1, 3, 5>>, <<2, 3, 4>>, <<3, 4, 5>>}

\* Seven weird triangles around a strip of four regular ones: the triangle
\* 0-4-5 has no regular neighbour.
WeirdFan ==
    {<<0, 1, 2>>, <<0, 1, 4>>, <<0, 2, 5>>, <<0, 4, 5>>, <<0, 4, 6>>, <<0, 5, 6>>,
     <<1, 2, 4>>, <<2, 3, 4>>, <<2, 3, 5>>, <<3, 4, 5>>, <<4, 5, 6>>}

\* Meshes beyond the enumerated ones: the cases that need more triangles or
\* six or seven vertices.
Catalogue ==
    {PendantTetrahedron, Bipyramid, TailedTetrahedron, TwoTetrahedra, Octahedron,
     ProjectivePlane, FourPageBook, WeirdFan}

\* Raw records whose three points are distinct (the pipeline is specified for
\* non-degenerate triangles only), in every listing order.
RawRecords ==
    {<<Coord(t[1]), Coord(t[2]), Coord(t[3])>> :
        t \in {u \in (0 .. NumRawPoints - 1) \X (0 .. NumRawPoints - 1) \X (0 .. NumRawPoints - 1) :
                  u[1] # u[2] /\ u[2] # u[3] /\ u[1] # u[3]}}

\* Every stream of at most MaxRecords raw records.
ShortInputs == UNION {[1 .. n -> RawRecords] : n \in 0 .. MaxRecords}

\* The mesh files the pipeline is run on.
Inputs == {RecordsOf(T) : T \in SparseMeshes \cup DenseMeshes \cup Catalogue} \cup ShortInputs

(* ------------------------- tuples and lists --------------------------- *)

Min2(a, b) == IF a <= b THEN a ELSE b
Max2(a, b) == IF a <= b THEN b ELSE a

\* tuple(sorted((a, b)))
Sorted2(a, b) == <<Min2(a, b), Max2(a, b)>>

\* The index triple kept in the order the record lists its points.
Sorted3_AsListed(s) == s

\* tuple(sorted(indices)) for three indices
Sorted3(s) ==
    LET lo == Min2(s[1], Min2(s[2], s[3]))
        hi == Max2(s[1], Max2(s[2], s[3]))
    IN  <<lo, s[1] + s[2] + s[3] - lo - hi, hi>>

Range(s) == {s[i] : i \in 1 .. Len(s)}

\* Number of occurrences of x in the list s.
Count(s, x) == Cardinality({i \in 1 .. Len(s) : s[i] = x})

\* A list.remove that drops the front of the list instead of the value.
ListRemove_PopFront(s, x) == Tail(s)

\* list.remove(x): the list without the first occurrence of x (the caller
\* checks that x occurs; Python raises ValueError otherwise).
ListRemove(s, x) ==
    LET i == CHOOSE k \in 1 .. Len(s) : s[k] = x /\ \A j \in 1 .. k - 1 : s[j] # x
    IN  SubSeq(s, 1, i - 1) \o SubSeq(s, i + 1, Len(s))

(* ------------------------ edges and adjacency ------------------------- *)

\* edges_from_triangle: the three edges, each ordered (low, high).
edges_from_triangle(triangle) ==
    <<Sorted2(triangle[1], triangle[2]),
      Sorted2(triangle[2], triangle[3]),
      Sorted2(triangle[1], triangle[3])>>

\* The adjacency map is a defaultdict(list): reading a missing key creates it
\* with an empty list.  Get is the value read, Touch the map after the read.
Get(et, edge) == IF edge \in DOMAIN et THEN et[edge] ELSE <<>>

TouchAll(et, edges) == [e \in DOMAIN et \cup edges |-> Get(et, e)]

Touch(et, edge) == TouchAll(et, {edge})

\* The edges of every triangle of the set T.
EdgesOf(T) == UNION {Range(edges_from_triangle(t)) : t \in T}

\* edge_triange[edge].append(triangle)
AppendTriangle(et, edge, triangle) ==
    [Touch(et, edge) EXCEPT ![edge] = Append(@, triangle)]

\* Every edge with at most two triangles counts as free.
free_edges_AtMostTwo(triangle, et) ==
    SelectSeq(edges_from_triangle(triangle), LAMBDA edge : Len(Get(et, edge)) <= 2)

\* free_edges with the size test off by one.
free_edges_OffByOne(triangle, et) ==
    SelectSeq(edges_from_triangle(triangle), LAMBDA edge : Len(Get(et, edge)) = 2)

\* free_edges: the edges of the triangle whose adjacency list has one entry.
free_edges(triangle, et) ==
    SelectSeq(edges_from_triangle(triangle), LAMBDA edge : Len(Get(et, edge)) = 1)

(* ------------------------------ state --------------------------------- *)

VARIABLES
    pc,               \* the stage of __main__ that runs next
    vectors,          \* mesh.vectors: the records of the mesh file
    vi,               \* process_file: the records of mesh.vectors read so far
    point_index,      \* process_file: Dict[Point, int]
    points,           \* process_file: List[Point]
    index,            \* process_file: the next vertex index
    triangles,        \* process_file's triangle set, then __main__'s triangles
    edge_triangle,    \* the adjacency map: Edge -> list of triangles
    ret,              \* remove_unwanted_triangles: the surviving set
    have_free_faces,  \* remove_unwanted_triangles: the worklist
    weird,            \* split_triangles: the weird set
    regular,          \* split_triangles: the regular set
    components,       \* __main__: the list of components
    processed,        \* get_connected_components: triangles already in a component
    ci,               \* the component the loop over components is at (from 1)
    weird_left,       \* add_weird_triangles_to_components: weird triangles still to visit
    new_compoment,    \* orient_component: the oriented triangles
    o_processed,      \* orient_component: its processed set
    to_process,       \* orient_component: its worklist
    oriented          \* __main__: the results of orient_component so far

vars == <<pc, vectors, vi, point_index, points, index, triangles, edge_triangle, ret,
          have_free_faces, weird, regular, components, processed, ci, weird_left, new_compoment, o_processed, to_process, oriented>>

EmptyMap == [e \in {} |-> <<>>]

Init ==
    /\ pc = "ingest"
    /\ vectors \in Inputs
    /\ vi = 0
    /\ point_index = EmptyMap
    /\ points = <<>>
    /\ index = 0
    /\ triangles = {}
    /\ edge_triangle = EmptyMap
    /\ ret = {}
    /\ have_free_faces = {}
    /\ weird = {}
    /\ regular = {}
    /\ components = <<>>
    /\ processed = {}
    /\ ci = 0
    /\ weird_left = {}
    /\ new_compoment = {}
    /\ o_processed = {}
    /\ to_process = {}
    /\ oriented = <<>>

(* --------------------------- process_file ----------------------------- *)

\* The body of "for point in vector" without "index += 1".
InternPoint_StaleIndex(s, point) ==
    IF point \notin DOMAIN s.point_index
    THEN [point_index |-> [q \in DOMAIN s.point_index \cup {point} |->
                              IF q = point THEN s.index ELSE s.point_index[q]],
          points      |-> Append(s.points, point),
          index       |-> s.index,
          indices     |-> Append(s.indices, s.index)]
    ELSE [s EXCEPT !.indices = Append(@, s.point_index[point])]

\* The body of "for point in vector": s holds point_index, points, index and
\* the indices collected so far for the current record.
InternPoint(s, point) ==
    IF point \notin DOMAIN s.point_index
    THEN [point_index |-> [q \in DOMAIN s.point_index \cup {point} |->
                              IF q = point THEN s.index ELSE s.point_index[q]],
          points      |-> Append(s.points, point),
          index       |-> s.index + 1,
          indices     |-> Append(s.indices, s.index)]
    ELSE [s EXCEPT !.indices = Append(@, s.point_index[point])]

InternVector(s, vector) ==
    InternPoint(InternPoint(InternPoint(s, vector[1]), vector[2]), vector[3])

\* "for edge in edges_from_triangle(triangle): edge_triange[edge].append(triangle)"
AppendToEdges(et, triangle) ==
    LET edges == edges_from_triangle(triangle)
    IN  AppendTriangle(AppendTriangle(AppendTriangle(et, edges[1], triangle),
                                      edges[2], triangle),
                       edges[3], triangle)

\* One iteration of "for vector in mesh.vectors".
Ingest ==
    /\ pc = "ingest"
    /\ vi < Len(vectors)
    /\ LET s == InternVector([point_index |-> point_index, points |-> points,
                              index |-> index, indices |-> <<>>], vectors[vi + 1])
           triangle == Sorted3(s.indices)
       IN  /\ point_index' = s.point_index
           /\ points' = s.points
           /\ index' = s.index
           /\ IF triangle \notin triangles
              THEN /\ edge_triangle' = AppendToEdges(edge_triangle, triangle)
                   /\ triangles' = triangles \cup {triangle}
              ELSE UNCHANGED <<edge_triangle, triangles>>
    /\ vi' = vi + 1
    /\ UNCHANGED <<pc, vectors, ret, have_free_faces, weird, regular, components, processed,
                   ci, weird_left, new_compoment, o_processed, to_process,
                   oriented>>

(* --------------------- remove_unwanted_triangles ---------------------- *)

\* No triangle is ever found to have a free edge.
WithFreeEdges_None(T, et) == {}

\* The triangles of T that have a free edge.
WithFreeEdges(T, et) == {t \in T : free_edges(t, et) # <<>>}

\* process_file returns; remove_unwanted_triangles builds ret and the worklist.
RepairStart ==
    /\ pc = "ingest"
    /\ vi = Len(vectors)
    /\ ret' = triangles
    /\ have_free_faces' = WithFreeEdges(triangles, edge_triangle)
    /\ edge_triangle' = TouchAll(edge_triangle, EdgesOf(triangles))
    /\ pc' = "repair"
    /\ UNCHANGED <<vectors, vi, point_index, points, index, triangles, weird, regular,
                   components, processed, ci, weird_left, new_compoment,
                   o_processed, to_process, oriented>>

\* A removal that collects the neighbours and leaves the triangle in the
\* adjacency lists.
Detach_ListsKept(d, processing, edges) ==
    [d EXCEPT !.neighbours = Get(d.et, edges[1]) \o Get(d.et, edges[2])
                                 \o Get(d.et, edges[3])]

\* A removal that leaves the adjacency lists as they are and collects no
\* neighbour.
Detach_Untouched(d, processing, edges) == d

\* "for edge in edges_from_triangle(processing)": remove processing from the
\* list of each edge and collect what is left there.  ok is FALSE when
\* list.remove raises (processing is not in the list).
RECURSIVE Detach(_, _, _)
Detach(d, processing, edges) ==
    IF edges = <<>> \/ ~d.ok THEN d
    ELSE LET edge == Head(edges)
             list == Get(d.et, edge)
         IN  IF Count(list, processing) = 0
             THEN [d EXCEPT !.ok = FALSE, !.et = Touch(d.et, edge)]
             ELSE LET shorter == ListRemove(list, processing)
                  IN  Detach([ok |-> TRUE,
                              et |-> [d.et EXCEPT ![edge] = shorter],
                              neighbours |-> d.neighbours \o shorter],
                             processing, Tail(edges))

\* A repair that never looks at the neighbours again: a single pass.
NewFreeFaces_SinglePass(neighbours, et) == {}

\* "for neighbour in neighbours: if free_edges(...): have_free_faces.add(neighbour)"
NewFreeFaces(neighbours, et) == WithFreeEdges(Range(neighbours), et)

\* One iteration of "while have_free_faces".
RepairStep ==
    /\ pc = "repair"
    /\ \E processing \in have_free_faces :
        LET d == Detach([ok |-> TRUE, et |-> edge_triangle, neighbours |-> <<>>],
                        processing, edges_from_triangle(processing))
        IN  IF ~d.ok \/ processing \notin ret
            THEN /\ pc' = "failed"
                 /\ edge_triangle' = d.et
                 /\ have_free_faces' = have_free_faces \ {processing}
                 /\ UNCHANGED ret
            ELSE /\ pc' = pc
                 /\ edge_triangle' = TouchAll(d.et, EdgesOf(Range(d.neighbours)))
                 /\ ret' = ret \ {processing}
                 /\ have_free_faces' =
                        (have_free_faces \ {processing}) \cup NewFreeFaces(d.neighbours, d.et)
    /\ UNCHANGED <<vectors, vi, point_index, points, index, triangles, weird, regular,
                   components, processed, ci, weird_left, new_compoment,
                   o_processed, to_process, oriented>>

\* The worklist is empty: "return list(ret)", assigned to triangles in __main__.
RepairReturn ==
    /\ pc = "repair"
    /\ have_free_faces = {}
    /\ triangles' = ret
    /\ pc' = "split"
    /\ UNCHANGED <<vectors, vi, point_index, points, index, edge_triangle, ret,
                   have_free_faces, weird, regular, components, processed, ci,
                   weird_left, new_compoment, o_processed, to_process,
                   oriented>>

(* -------------------------- split_triangles --------------------------- *)

\* A test that finds no edge crowded.
HasCrowdedEdge_Never(triangle, et) == FALSE

\* The weird test with the size bound off by one.
HasCrowdedEdge_OffByOne(triangle, et) ==
    \E i \in 1 .. 3 : Len(Get(et, edges_from_triangle(triangle)[i])) > 1

\* any(len(edge_triangle[edge]) > 2 for edge in edges_from_triangle(triangle))
HasCrowdedEdge(triangle, et) ==
    \E i \in 1 .. 3 : Len(Get(et, edges_from_triangle(triangle)[i])) > 2

split_triangles(T, et) ==
    [weird   |-> {triangle \in T : HasCrowdedEdge(triangle, et)},
     regular |-> {triangle \in T : ~HasCrowdedEdge(triangle, et)}]

Split ==
    /\ pc = "split"
    /\ weird' = split_triangles(triangles, edge_triangle).weird
    /\ regular' = split_triangles(triangles, edge_triangle).regular
    /\ edge_triangle' = TouchAll(edge_triangle, EdgesOf(triangles))
    /\ pc' = "extract"
    /\ UNCHANGED <<vectors, vi, point_index, points, index, triangles, ret, have_free_faces,
                   components, processed, ci, weird_left, new_compoment, o_processed,
                   to_process, oriented>>

(* --------------------- get_connected_components ----------------------- *)

\* The triangles on the three edges of a triangle, in the order the code
\* meets them: edge by edge, each adjacency list front to back.
OnEdges(triangle, et) ==
    LET edges == edges_from_triangle(triangle)
    IN  Get(et, edges[1]) \o Get(et, edges[2]) \o Get(et, edges[3])

\* The loop "while to_process" of get_connected_component; to_process is a
\* list used as a stack.
RECURSIVE FloodFill(_, _, _, _)
FloodFill(comp, stack, et, regular_triangles) ==
    IF stack = <<>> THEN comp
    ELSE LET processing == stack[Len(stack)]
             grown == comp \cup {processing}
             pushed == SelectSeq(OnEdges(processing, et),
                                 LAMBDA t : t \notin grown /\ t \in regular_triangles)
         IN  FloodFill(grown, SubSeq(stack, 1, Len(stack) - 1) \o pushed,
                       et, regular_triangles)

\* A flood fill that stops at the neighbours of the seed.
get_connected_component_OneRing(triangle, et, regular_triangles) ==
    {triangle} \cup {t \in Range(OnEdges(triangle, et)) : t \in regular_triangles}

get_connected_component(triangle, et, regular_triangles) ==
    FloodFill({}, <<triangle>>, et, regular_triangles)

\* One iteration of "for t in regular_triangles" that finds t unprocessed
\* (an iteration that finds t processed changes nothing).
ExtractComponent ==
    /\ pc = "extract"
    /\ \E t \in regular \ processed :
        LET comp == get_connected_component(t, edge_triangle, regular)
        IN  /\ processed' = processed \cup comp
            /\ components' = Append(components, comp)
            /\ edge_triangle' = TouchAll(edge_triangle, EdgesOf(comp))
    /\ UNCHANGED <<pc, vectors, vi, point_index, points, index, triangles, ret,
                   have_free_faces, weird, regular, ci, weird_left, new_compoment,
                   o_processed, to_process, oriented>>

\* Every regular triangle is processed: "return components";
\* add_weird_triangles_to_components starts at the first component.
ExtractReturn ==
    /\ pc = "extract"
    /\ regular \subseteq processed
    /\ pc' = "reattach"
    /\ ci' = 1
    /\ weird_left' = weird
    /\ UNCHANGED <<vectors, vi, point_index, points, index, triangles, edge_triangle, ret,
                   have_free_faces, weird, regular, components, processed,
                   new_compoment, o_processed, to_process, oriented>>

(* ----------------- add_weird_triangles_to_components ------------------ *)

\* sum(neighbours): the edges of the weird triangle that have a triangle of
\* the component in their adjacency list.
BorderingEdges(weird_triangle, comp, et) ==
    Cardinality({i \in 1 .. 3 :
        \E t \in Range(Get(et, edges_from_triangle(weird_triangle)[i])) : t \in comp})

\* The body of "for weird_triangle in weird_triangles" for one component.
Reattach(comp, weird_triangle, et) ==
    IF BorderingEdges(weird_triangle, comp, et) > 1
    THEN comp \cup {weird_triangle}
    ELSE comp

\* One iteration of the inner loop; after the last weird triangle the outer
\* loop moves to the next component.
ReattachStep ==
    /\ pc = "reattach"
    /\ ci <= Len(components)
    /\ \E weird_triangle \in weird_left :
        /\ components' = [components EXCEPT
                              ![ci] = Reattach(@, weird_triangle, edge_triangle)]
        /\ edge_triangle' = TouchAll(edge_triangle, EdgesOf({weird_triangle}))
        /\ IF weird_left = {weird_triangle}
           THEN ci' = ci + 1 /\ weird_left' = weird
           ELSE ci' = ci /\ weird_left' = weird_left \ {weird_triangle}
    /\ UNCHANGED <<pc, vectors, vi, point_index, points, index, triangles, ret,
                   have_free_faces, weird, regular, processed, new_compoment,
                   o_processed, to_process, oriented>>

\* Both loops are over; the list comprehension over components starts.
ReattachReturn ==
    /\ pc = "reattach"
    /\ ci > Len(components) \/ weird = {}
    /\ pc' = "orient"
    /\ ci' = 1
    /\ weird_left' = {}
    /\ UNCHANGED <<vectors, vi, point_index, points, index, triangles, edge_triangle, ret,
                   have_free_faces, weird, regular, components, processed,
                   new_compoment, o_processed, to_process, oriented>>

(* -------------------------- orient_component -------------------------- *)

\* None, the value common_edge returns when the triangles share no edge.
None == <<>>

\* The triangle returned as it is, no two vertices exchanged.
swap_orientation_Keep(triangle) == triangle

\* swap_orientation: the triangle with its first two vertices exchanged.
swap_orientation(triangle) == <<triangle[2], triangle[1], triangle[3]>>

\* edges1.intersection(edges2) in common_edge
common_edges(triangle1, triangle2) ==
    Range(edges_from_triangle(triangle1)) \cap Range(edges_from_triangle(triangle2))

\* edge_orientation: 1 if the triangle runs through the edge from its low to
\* its high vertex, -1 otherwise (also for None).
edge_orientation(triangle, edge) ==
    IF edge \in {<<triangle[1], triangle[2]>>,
                 <<triangle[2], triangle[3]>>,
                 <<triangle[3], triangle[1]>>}
    THEN 1
    ELSE -1

\* is_consistently_oriented: raised is TRUE when the assertion in common_edge
\* fails (more than one common edge), value is the result otherwise.
is_consistently_oriented(base_triangle, test_triangle) ==
    LET common == common_edges(base_triangle, test_triangle)
        edge == IF common = {} THEN None ELSE CHOOSE e \in common : TRUE
        o1 == edge_orientation(base_triangle, edge)
        o2 == edge_orientation(test_triangle, edge)
    IN  [raised |-> Cardinality(common) \notin {0, 1},
         value  |-> o1 * o2 = -1]

\* The candidates that are not processed, of the component or not.
OrientNeighbours_AnyComponent(triangle, comp, done, et) ==
    SelectSeq(OnEdges(triangle, et), LAMBDA candidate : candidate \notin done)

\* "for candidate in edge_triangle[edge]: if candidate in component and
\*  candidate not in processed: neighbours.append(candidate)"
OrientNeighbours(triangle, comp, done, et) ==
    SelectSeq(OnEdges(triangle, et), LAMBDA candidate : candidate \in comp /\ candidate \notin done)

\* The loop over the neighbours without "processed.add(neighbour)".
RECURSIVE VisitNeighbours_Unmarked(_, _, _, _)
VisitNeighbours_Unmarked(v, neighbours, triangle, new_comp) ==
    IF neighbours = <<>> THEN v
    ELSE LET neighbour == Head(neighbours)
             consistent == is_consistently_oriented(neighbour, triangle)
             next == [v EXCEPT !.to_process = @ \cup
                         {IF consistent.value THEN neighbour
                                              ELSE swap_orientation(neighbour)}]
         IN  VisitNeighbours_Unmarked(next, Tail(neighbours), triangle, new_comp)

\* "for neighbour in neighbours": v holds processed and to_process, and
\* ok = FALSE once an assertion has failed.
RECURSIVE VisitNeighbours(_, _, _, _)
VisitNeighbours(v, neighbours, triangle, new_comp) ==
    IF neighbours = <<>> \/ ~v.ok THEN v
    ELSE LET neighbour == Head(neighbours)
             consistent == is_consistently_oriented(neighbour, triangle)
             next ==
                 IF consistent.raised THEN [v EXCEPT !.ok = FALSE]
                 ELSE IF neighbour \in new_comp
                      THEN [v EXCEPT !.ok = consistent.value]
                      ELSE [ok |-> TRUE,
                            o_processed |-> v.o_processed \cup {neighbour},
                            to_process |-> v.to_process \cup
                                {IF consistent.value THEN neighbour
                                                     ELSE swap_orientation(neighbour)}]
         IN  VisitNeighbours(next, Tail(neighbours), triangle, new_comp)

\* component.pop() without the add that puts the triangle back.
PopAndPutBack_PopOnly(comp, first_triangle) == comp \ {first_triangle}

\* "first_triangle = component.pop(); component.add(first_triangle)"
PopAndPutBack(comp, first_triangle) == (comp \ {first_triangle}) \cup {first_triangle}

\* orient_component is called for components[ci]: the lines before its loop.
OrientStart ==
    /\ pc = "orient"
    /\ ci <= Len(components)
    /\ IF components[ci] = {}
       THEN /\ pc' = "failed"
            /\ UNCHANGED <<components, new_compoment, o_processed, to_process>>
       ELSE \E first_triangle \in components[ci] :
            /\ components' = [components EXCEPT ![ci] = PopAndPutBack(@, first_triangle)]
            /\ new_compoment' = {}
            /\ o_processed' = {first_triangle}
            /\ to_process' = {first_triangle}
            /\ pc' = "orient_loop"
    /\ UNCHANGED <<vectors, vi, point_index, points, index, triangles, edge_triangle, ret,
                   have_free_faces, weird, regular, processed, ci, weird_left, oriented>>

\* One iteration of "while to_process" in orient_component.
OrientStep ==
    /\ pc = "orient_loop"
    /\ \E triangle \in to_process :
        LET grown == new_compoment \cup {triangle}
            neighbours == OrientNeighbours(triangle, components[ci], o_processed,
                                           edge_triangle)
            v == VisitNeighbours([ok |-> TRUE, o_processed |-> o_processed,
                                  to_process |-> to_process \ {triangle}],
                                 neighbours, triangle, grown)
        IN  /\ new_compoment' = grown
            /\ o_processed' = v.o_processed
            /\ to_process' = v.to_process
            /\ edge_triangle' = TouchAll(edge_triangle, EdgesOf({triangle}))
            /\ pc' = IF v.ok THEN pc ELSE "failed"
    /\ UNCHANGED <<vectors, vi, point_index, points, index, triangles, ret, have_free_faces,
                   weird, regular, components, processed, ci, weird_left, oriented>>

\* The worklist is empty: "return new_compoment"; the comprehension takes
\* the result and moves to the next component.
OrientReturn ==
    /\ pc = "orient_loop"
    /\ to_process = {}
    /\ oriented' = Append(oriented, new_compoment)
    /\ ci' = ci + 1
    /\ pc' = "orient"
    /\ UNCHANGED <<vectors, vi, point_index, points, index, triangles, edge_triangle, ret,
                   have_free_faces, weird, regular, components, processed, weird_left,
                   new_compoment, o_processed, to_process>>

\* The comprehension is over: its list is assigned to components.
Finish ==
    /\ pc = "orient"
    /\ ci > Len(components)
    /\ components' = oriented
    /\ pc' = "done"
    /\ UNCHANGED <<vectors, vi, point_index, points, index, triangles, edge_triangle, ret,
                   have_free_faces, weird, regular, processed, ci, weird_left,
                   new_compoment, o_processed, to_process, oriented>>

(* --------------------------- specification ---------------------------- *)

Next ==
    \/ Ingest
    \/ RepairStart
    \/ RepairStep
    \/ RepairReturn
    \/ Split
    \/ ExtractComponent
    \/ ExtractReturn
    \/ ReattachStep
    \/ ReattachReturn
    \/ OrientStart
    \/ OrientStep
    \/ OrientReturn
    \/ Finish

Spec == Init /\ [][Next]_vars

(* ------------------- notions the properties are about ----------------- *)

\* The stages of __main__ that run after remove_unwanted_triangles returned.
AfterRepair == pc \in {"split", "extract", "reattach", "orient", "orient_loop", "done"}

\* The stages that run after split_triangles returned.
AfterSplit == pc \in {"extract", "reattach", "orient", "orient_loop", "done"}

\* The active triangle set: ret while the repair loop runs, triangles otherwise.
Active == IF pc = "repair" THEN ret ELSE triangles

\* The unordered edges of a triangle, as sets of two vertices.
Sides(t) == {{t[1], t[2]}, {t[2], t[3]}, {t[1], t[3]}}

SharesEdge(s, t) == s # t /\ Sides(s) \cap Sides(t) # {}

\* The triangles of T that have the vertices of edge among theirs.
Around(edge, T) == {t \in T : {edge[1], edge[2]} \in Sides(t)}

\* The triangle runs from vertex a to vertex b along one of its sides.
Traverses(t, a, b) == <<a, b>> \in {<<t[1], t[2]>>, <<t[2], t[3]>>, <<t[3], t[1]>>}

\* Two oriented triangles run through every side they share in opposite
\* directions.
OppositeOnShared(s, t) ==
    \A side \in Sides(s) \cap Sides(t) :
        \A a \in side : \A b \in side \ {a} : Traverses(s, a, b) => Traverses(t, b, a)

\* A set of oriented triangles is consistently oriented.
Consistent(S) == \A s \in S : \A t \in S \ {s} : OppositeOnShared(s, t)

\* The triangles of T joined to the triangles of S by chains of triangles of
\* T in which consecutive triangles share an edge.
RECURSIVE ChainClosure(_, _)
ChainClosure(S, T) ==
    LET more == S \cup {t \in T : \E s \in S : SharesEdge(s, t)}
    IN  IF more = S THEN S ELSE ChainClosure(more, T)

\* get_connected_components has just returned.
JustExtracted == pc = "reattach" /\ ci = 1 /\ weird_left = weird

\* add_weird_triangles_to_components has just returned.
JustReattached == pc = "orient" /\ ci = 1

(* ----------------------------- properties ----------------------------- *)

\* C1: after remove_unwanted_triangles returns, whatever the order of the
\* pops, no edge of a surviving triangle has an adjacency list of size 1, and
\* every edge of every surviving triangle is shared by at least 2 survivors.
C1_NoFreeEdgeAfterRepair ==
    AfterRepair =>
        \A t \in triangles : \A i \in 1 .. 3 :
            LET edge == edges_from_triangle(t)[i]
            IN  /\ Len(Get(edge_triangle, edge)) # 1
                /\ Cardinality(Around(edge, triangles)) >= 2

\* C1 witness: repair has returned after removing some triangles and keeping
\* others.
C1_Witness ==
    /\ pc = "split"
    /\ triangles # {}
    /\ \E edge \in DOMAIN edge_triangle : edge_triangle[edge] = <<>>

\* C2 (as claimed): every set orient_component has returned is consistently
\* oriented: two of its triangles that share an edge run through it in
\* opposite directions.
C2_ReturnedIsConsistent ==
    \A i \in 1 .. Len(oriented) : Consistent(oriented[i])

\* C3 (as claimed): orient_component does not go on, or return, with two
\* oriented triangles that share an edge and run through it in the same
\* direction: it fails when it meets the contradiction.
C3_FailsOnContradiction ==
    pc = "orient_loop" => Consistent(new_compoment)

\* C4: the components returned by get_connected_components partition the
\* regular set, hold regular triangles only, and two regular triangles are in
\* the same component iff a chain of regular triangles joins them.
C4_ComponentsPartitionRegular ==
    JustExtracted =>
        /\ \A t \in regular :
              Cardinality({i \in 1 .. Len(components) : t \in components[i]}) = 1
        /\ \A i \in 1 .. Len(components) : components[i] \subseteq regular
        /\ \A s \in regular : \A t \in regular :
              (\E i \in 1 .. Len(components) : s \in components[i] /\ t \in components[i])
                  <=> t \in ChainClosure({s}, regular)

\* C4 witness: extraction returned two components next to weird triangles.
C4_Witness == JustExtracted /\ Len(components) = 2 /\ weird # {}

\* C5: split_triangles partitions its input; a triangle is weird iff one of
\* its edges has more than 2 triangles in its list, regular iff none has.
C5_SplitPartitions ==
    AfterSplit =>
        /\ weird \cap regular = {}
        /\ weird \cup regular = triangles
        /\ \A t \in triangles :
              /\ t \in weird <=>
                    \E i \in 1 .. 3 : Len(edge_triangle[edges_from_triangle(t)[i]]) > 2
              /\ t \in regular <=>
                    \A i \in 1 .. 3 : Len(edge_triangle[edges_from_triangle(t)[i]]) <= 2

\* C5 witness: the split found weird and regular triangles.
C5_Witness == pc = "extract" /\ weird # {} /\ regular # {}

\* C6 (as claimed): after add_weird_triangles_to_components a weird triangle
\* is in a component iff at least two of its edges have, in their adjacency
\* list, a triangle of the component as it was extracted.
C6_AttachedIffTwoEdgesBorder ==
    JustReattached =>
        \A i \in 1 .. Len(components) : \A w \in weird :
            w \in components[i] <=>
                Cardinality({k \in 1 .. 3 :
                    \E t \in Range(edge_triangle[edges_from_triangle(w)[k]]) :
                        t \in components[i] \cap regular}) >= 2

\* C7: the adjacency map agrees with the active triangle set after every
\* record read and every iteration of the repair loop: an active triangle is
\* once in the list of each of its edges, and the lists hold active triangles
\* only.
C7_AdjacencyAgreesWithActive ==
    pc \in {"ingest", "repair", "split"} =>
        /\ \A t \in Active : \A i \in 1 .. 3 :
              Count(Get(edge_triangle, edges_from_triangle(t)[i]), t) = 1
        /\ \A edge \in DOMAIN edge_triangle :
              Range(edge_triangle[edge]) \subseteq Around(edge, Active)

\* C7 witness: the repair loop has removed some triangles and not all.
C7_Witness == pc = "repair" /\ ret # triangles /\ ret # {} /\ have_free_faces # {}

\* C9: split_triangles, get_connected_components,
\* add_weird_triangles_to_components and orient_component leave the
\* adjacency map as it is (keys and lists), and orient_component leaves the
\* component it is given as it is.
C9_LaterStagesOnlyRead ==
    [][/\ AfterRepair => edge_triangle' = edge_triangle
       /\ (pc \in {"orient", "orient_loop"} /\ pc' # "done") => components' = components]_vars

\* C9 witness: every stage has run on a mesh with weird triangles and a
\* component.
C9_Witness == pc = "done" /\ weird # {} /\ Len(components) >= 1

\* C8: every step of the repair loop either is an iteration that removes one
\* triangle that is still active and leaves only active triangles on the
\* worklist (a removed triangle is never put back, and no step raises), or is
\* the exit, taken with no active triangle that has a free edge.  The active
\* set shrinks with every iteration, so the loop ends after at most as many
\* iterations as there are triangles.
C8_RepairTerminates ==
    [][pc = "repair" =>
         \/ /\ pc' = "repair"
            /\ \E t \in ret \cap have_free_faces : ret' = ret \ {t}
            /\ Cardinality(ret') < Cardinality(ret)
            /\ have_free_faces' \subseteq ret'
         \/ /\ pc' = "split"
            /\ have_free_faces = {}
            /\ triangles' = ret
            /\ \A t \in ret : \A i \in 1 .. 3 :
                  Len(edge_triangle[edges_from_triangle(t)[i]]) # 1]_vars

\* C8 witness: the worklist has run empty after the loop removed at least
\* two triangles and kept some.
C8_Witness ==
    /\ pc = "repair"
    /\ have_free_faces = {}
    /\ Cardinality(triangles \ ret) >= 2
    /\ ret # {}

\* The points of the first n records, in reading order.
RECURSIVE Flat(_, _)
Flat(vecs, n) == IF n = 0 THEN <<>> ELSE Flat(vecs, n - 1) \o vecs[n]

\* A list without the repetitions of its elements.
RECURSIVE FirstSeen(_)
FirstSeen(seq) ==
    IF seq = <<>> THEN <<>>
    ELSE LET front == FirstSeen(SubSeq(seq, 1, Len(seq) - 1))
             last == seq[Len(seq)]
         IN  IF last \in Range(front) THEN front ELSE Append(front, last)

\* Interning a list of points from scratch.
RECURSIVE InternAll(_)
InternAll(seq) ==
    IF seq = <<>>
    THEN [point_index |-> EmptyMap, points |-> <<>>, index |-> 0, indices |-> <<>>]
    ELSE InternPoint(InternAll(SubSeq(seq, 1, Len(seq) - 1)), seq[Len(seq)])

\* C10: the k-th distinct point read has index k-1, equal points have the
\* same index, points[index of p] = p, and interning the deduplicated point
\* list again gives the indices 0 .. n-1 in the same order.
C10_InterningDenseFirstSeen ==
    /\ points = FirstSeen(Flat(vectors, vi))
    /\ index = Len(points)
    /\ DOMAIN point_index = Range(points)
    /\ \A k \in 1 .. Len(points) : point_index[points[k]] = k - 1
    /\ InternAll(points).indices = [k \in 1 .. Len(points) |-> k - 1]
    /\ InternAll(points).points = points

\* C10 witness: the file is read, points repeated in it, and the first-seen
\* order is not the order of the coordinates.
C10_Witness ==
    /\ pc = "ingest"
    /\ vi = Len(vectors)
    /\ Len(points) < 3 * vi
    /\ \E k \in 1 .. Len(points) : points[k] # Coord(k - 1)

\* C11: records with the same vertex set, in any listing order, collapse to
\* one triangle: while the file is read the triangle set holds each distinct
\* vertex set read so far once (points is the list that gives the point of
\* every index), as the ascending index triple, and the triangle is once in
\* the adjacency list of each of its three edges, whatever the number of
\* records that repeat it.
C11_DuplicatesCollapse ==
    pc = "ingest" =>
        LET read == {{vectors[r][j] : j \in 1 .. 3} : r \in 1 .. vi}
        IN  /\ \A t \in triangles : t[1] < t[2] /\ t[2] < t[3]
            /\ {{points[t[k] + 1] : k \in 1 .. 3} : t \in triangles} = read
            /\ Cardinality(triangles) = Cardinality(read)
            /\ \A t \in triangles : \A i \in 1 .. 3 :
                  Count(edge_triangle[edges_from_triangle(t)[i]], t) = 1

\* C11 witness: two records list the same three points in different orders
\* and one triangle is in the set.
C11_Witness ==
    /\ pc = "ingest"
    /\ vi = 2
    /\ vectors[1] # vectors[2]
    /\ Cardinality(triangles) = 1

\* The records of the input file describe a closed tetrahedron: 4 distinct
\* vertex sets over 4 points.
InputIsTetrahedron ==
    LET sets == {{vectors[r][j] : j \in 1 .. 3} : r \in 1 .. Len(vectors)}
    IN  Cardinality(sets) = 4 /\ Cardinality(UNION sets) = 4

\* C12: for a closed tetrahedron the repair removes no triangle, the split
\* finds 4 regular and 0 weird triangles, extraction gives one component of
\* size 4, orientation never fails and returns 4 triangles that are pairwise
\* consistently oriented.
C12_TetrahedronThroughPipeline ==
    InputIsTetrahedron =>
        /\ pc # "failed"
        /\ pc = "repair" => ret = triangles /\ have_free_faces = {}
        /\ AfterRepair => Cardinality(triangles) = 4
        /\ AfterSplit => Cardinality(regular) = 4 /\ weird = {}
        /\ pc \in {"reattach", "orient", "orient_loop", "done"} =>
              Len(components) = 1 /\ Cardinality(components[1]) = 4
        /\ pc = "done" =>
              /\ Len(oriented) = 1
              /\ Cardinality(oriented[1]) = 4
              /\ Consistent(oriented[1])
              /\ components = oriented

\* C12 witness: the tetrahedron went through the whole pipeline.
C12_Witness == InputIsTetrahedron /\ pc = "done" /\ Len(oriented) = 1

\* The records of the input file describe a closed tetrahedron and one more
\* triangle that shares exactly one edge with it: its third point is on no
\* other triangle, so its two other edges are free.
InputIsPendantTetrahedron ==
    LET sets == {{vectors[r][j] : j \in 1 .. 3} : r \in 1 .. Len(vectors)}
    IN  /\ Cardinality(sets) = 5
        /\ \E extra \in sets :
              /\ Cardinality(extra) = 3
              /\ Cardinality(sets \ {extra}) = 4
              /\ Cardinality(UNION (sets \ {extra})) = 4
              /\ Cardinality(extra \cap UNION (sets \ {extra})) = 2

\* The points (indices) on the triangles of T.
PointsOn(T) == UNION {{t[1], t[2], t[3]} : t \in T}

\* C13: for a tetrahedron with one extra triangle on one of its edges the
\* repair removes exactly the extra triangle and keeps the four faces, and
\* the later stages go as for the tetrahedron alone: 4 regular, 0 weird, one
\* component of size 4.
C13_PendantTriangleRemoved ==
    InputIsPendantTetrahedron =>
        /\ pc # "failed"
        /\ pc = "repair" =>
              /\ Cardinality(triangles \ ret) <= 1
              /\ \A t \in triangles \ ret : Cardinality(PointsOn(triangles \ {t})) = 4
        /\ AfterRepair =>
              /\ Cardinality(triangles) = 4
              /\ Cardinality(PointsOn(triangles)) = 4
        /\ AfterSplit => Cardinality(regular) = 4 /\ weird = {}
        /\ pc \in {"reattach", "orient", "orient_loop", "done"} =>
              Len(components) = 1 /\ Cardinality(components[1]) = 4

\* C13 witness: the repair of the tetrahedron with the extra triangle has
\* returned and the components are extracted.
C13_Witness == InputIsPendantTetrahedron /\ JustExtracted /\ Len(components) = 1

\* The records of the input file describe three triangles that share one
\* common edge (and so, being distinct, no other edge).
InputIsJunction ==
    LET sets == {{vectors[r][j] : j \in 1 .. 3} : r \in 1 .. Len(vectors)}
    IN  /\ Cardinality(sets) = 3
        /\ \A s \in sets : Cardinality(s) = 3
        /\ Cardinality({p \in UNION sets : \A s \in sets : p \in s}) = 2

\* C14 (as claimed): for three triangles on one common edge, once the stages
\* up to the split have run in order, the shared edge has an adjacency list
\* of size 3, the three triangles are classified weird, and none of them is
\* a regular member of a component.
C14_JunctionClassifiedWeird ==
    (InputIsJunction /\ AfterSplit) =>
        /\ \E edge \in DOMAIN edge_triangle : Len(edge_triangle[edge]) = 3
        /\ Cardinality(weird) = 3
        /\ regular = {}
        /\ \A i \in 1 .. Len(components) : components[i] \cap regular = {}

\* C14 (amended): for three triangles on one common edge the shared edge has
\* an adjacency list of size 3 when ingestion ends, and split_triangles
\* applied to that map would classify the three as weird; but each of them
\* has two free edges, so the repair stage, which runs before the split,
\* removes all three: after it every adjacency list is empty, the split
\* classifies no triangle as weird or regular, and no component is extracted.
C14_JunctionEroded ==
    InputIsJunction =>
        /\ pc # "failed"
        /\ (pc = "ingest" /\ vi = Len(vectors)) =>
              /\ Cardinality(triangles) = 3
              /\ \E edge \in DOMAIN edge_triangle :
                    /\ Len(edge_triangle[edge]) = 3
                    /\ Range(edge_triangle[edge]) = triangles
              /\ split_triangles(triangles, edge_triangle).weird = triangles
              /\ \A t \in triangles : Len(free_edges(t, edge_triangle)) = 2
        /\ AfterRepair =>
              /\ triangles = {}
              /\ \A edge \in DOMAIN edge_triangle : edge_triangle[edge] = <<>>
        /\ AfterSplit => weird = {} /\ regular = {}
        /\ pc \in {"reattach", "orient", "orient_loop", "done"} => components = <<>>

\* C14 witness: the pipeline has run to its end on the three triangles.
C14_Witness == InputIsJunction /\ pc = "done" /\ DOMAIN edge_triangle # {}

\* The ordered triple o is the stored triple t or t with two of its vertices
\* exchanged.
StoredOrSwapped(o, t) ==
    o \in {t, <<t[2], t[1], t[3]>>, <<t[3], t[2], t[1]>>, <<t[1], t[3], t[2]>>}

\* The set out holds one ordered triple per triangle of comp, each the stored
\* order of its triangle or that order with two vertices exchanged.
OneTriplePerTriangle(out, comp) ==
    /\ Cardinality(out) = Cardinality(comp)
    /\ \A o \in out :
          /\ Cardinality({t \in comp : Sides(t) = Sides(o)}) = 1
          /\ \E t \in comp : {t[1], t[2], t[3]} = {o[1], o[2], o[3]} /\ StoredOrSwapped(o, t)
    /\ \A t \in comp : \E o \in out : {t[1], t[2], t[3]} = {o[1], o[2], o[3]}

\* C15: what orient_component returns holds exactly one ordered triple per
\* triangle of its component, each the stored order of that triangle or the
\* stored order with two vertices exchanged; and the seed keeps its stored
\* order: it is queued as it is stored and is the first triple oriented.
C15_OneTriplePerTriangle ==
    /\ pc \in {"orient", "orient_loop"} =>
          \A i \in 1 .. Len(oriented) : OneTriplePerTriangle(oriented[i], components[i])
    /\ pc = "orient_loop" =>
          /\ new_compoment = {} =>
                Cardinality(to_process) = 1 /\ to_process \subseteq components[ci]
          /\ Cardinality(new_compoment) = 1 => new_compoment \subseteq components[ci]
          /\ to_process = {} => OneTriplePerTriangle(new_compoment, components[ci])

\* C15 witness: orient_component has returned a component in which it
\* exchanged the vertices of some triangles and kept the order of others.
C15_Witness ==
    /\ pc = "orient"
    /\ \E i \in 1 .. Len(oriented) :
          /\ oriented[i] \cap components[i] # {}
          /\ oriented[i] \ components[i] # {}

\* The ordered triples of the set S on the vertices of the triangle t.
FormsIn(t, S) == {o \in S : {o[1], o[2], o[3]} = {t[1], t[2], t[3]}}

\* The stage of the triangle t when queue is the worklist and done the
\* oriented set: 0 Unvisited, 1 Queued, 2 Oriented.
StageIn(t, queue, done) ==
    IF FormsIn(t, done) # {} THEN 2 ELSE IF FormsIn(t, queue) # {} THEN 1 ELSE 0

\* C16: in orient_component every triangle of the component moves only
\* forward through Unvisited, Queued, Oriented, one stage at a time: the call
\* starts with the seed alone Queued; an iteration moves exactly one triangle
\* from Queued to Oriented, with the triple it was queued with, and queues
\* only Unvisited triangles, each with one triple; a triangle is marked
\* processed iff it has left Unvisited; the iteration does not fail; the
\* number of triangles not yet Oriented falls with every iteration, and the
\* function returns with the worklist empty and every triangle Oriented.
C16_StagesOnlyForward ==
    [][/\ (pc = "orient" /\ pc' = "orient_loop") =>
             /\ Cardinality(to_process') = 1
             /\ to_process' \subseteq components'[ci]
             /\ new_compoment' = {}
       /\ pc = "orient_loop" =>
             /\ pc' # "failed"
             /\ \A t \in components[ci] :
                   LET before == StageIn(t, to_process, new_compoment)
                       after  == StageIn(t, to_process', new_compoment')
                   IN  /\ after >= before
                       /\ after - before <= 1
                       /\ Cardinality(FormsIn(t, to_process' \cup new_compoment')) <= 1
                       /\ before >= 1 =>
                             FormsIn(t, to_process' \cup new_compoment')
                                 = FormsIn(t, to_process \cup new_compoment)
                       /\ FormsIn(t, to_process') \cap FormsIn(t, new_compoment') = {}
                       /\ t \in o_processed' <=> after >= 1
             /\ pc' = "orient_loop" =>
                   /\ to_process # {}
                   /\ Cardinality(new_compoment') = Cardinality(new_compoment) + 1
                   /\ \E o \in to_process : new_compoment' = new_compoment \cup {o}
             /\ pc' = "orient" =>
                   /\ to_process = {}
                   /\ \A t \in components[ci] :
                         StageIn(t, to_process, new_compoment) = 2]_vars

\* C16 witness: in one call some triangles are Unvisited, some Queued and
\* some Oriented.
C16_Witness ==
    /\ pc = "orient_loop"
    /\ \E t \in components[ci] : StageIn(t, to_process, new_compoment) = 0
    /\ \E t \in components[ci] : StageIn(t, to_process, new_compoment) = 1
    /\ \E t \in components[ci] : StageIn(t, to_process, new_compoment) = 2

\* C17: in the pipeline, where the split runs on what the repair returned,
\* every regular triangle has on each of its three edges an adjacency list of
\* size exactly 2, that is exactly one other active triangle, and so exactly
\* 3 neighbours.
C17_RegularHasThreeNeighbours ==
    AfterSplit =>
        \A t \in regular :
            /\ \A i \in 1 .. 3 :
                  LET edge == edges_from_triangle(t)[i]
                  IN  /\ Len(edge_triangle[edge]) = 2
                      /\ Cardinality(Around(edge, triangles) \ {t}) = 1
            /\ Cardinality({s \in triangles : SharesEdge(s, t)}) = 3

\* C17 witness: the split ran after a repair that removed triangles, and
\* found regular triangles.
C17_Witness ==
    /\ pc = "extract"
    /\ Cardinality(regular) >= 4
    /\ \E edge \in DOMAIN edge_triangle : edge_triangle[edge] = <<>>

\* Every side of every triangle of S is a side of at least two triangles of S.
Closed(S) ==
    \A t \in S : \A side \in Sides(t) :
        Cardinality({s \in S : side \in Sides(s)}) >= 2

\* The largest closed subset of T: what is left when the triangles with a
\* side of their own are taken away, all at once, again and again.
RECURSIVE Core(_)
Core(T) ==
    LET keep == {t \in T : \A side \in Sides(t) :
                    Cardinality({s \in T : side \in Sides(s)}) >= 2}
    IN  IF keep = T THEN T ELSE Core(keep)

\* C18: whatever the order of the pops, no triangle of a closed subset of
\* the input is ever removed by the repair, and when the worklist is empty
\* what is left, which is what the repair returns, is closed: it is the
\* largest closed subset of the input.
C18_SurvivorsAreTheCore ==
    pc = "repair" =>
        /\ Core(triangles) \subseteq ret
        /\ have_free_faces = {} =>
              /\ Closed(ret)
              /\ ret = Core(triangles)
              /\ Cardinality(triangles) <= MaxEnumerated =>
                    \A S \in SUBSET triangles : Closed(S) => S \subseteq ret

\* C18 witness: the repair is about to return after removing some triangles
\* and keeping others.
C18_Witness ==
    /\ pc = "repair"
    /\ have_free_faces = {}
    /\ ret # {}
    /\ Cardinality(triangles \ ret) >= 2

\* The component comp after the weird triangles of todo were visited one by
\* one in ascending order, each by the rule of add_weird_triangles_to_components.
RECURSIVE ReattachAscending(_, _, _)
ReattachAscending(comp, todo, et) ==
    IF todo = {} THEN comp
    ELSE LET first == CHOOSE w \in todo : \A x \in todo \ {w} : LexLess(w, x)
         IN  ReattachAscending(Reattach(comp, first, et), todo \ {first}, et)

\* C19 (as claimed): what add_weird_triangles_to_components leaves in a
\* component does not depend on the order in which the weird triangles are
\* visited: whatever the order was, every component is what the visit in
\* ascending order makes of the component as it was extracted.
C19_ReattachOrderIndependent ==
    JustReattached =>
        \A i \in 1 .. Len(components) :
            components[i] = ReattachAscending(components[i] \cap regular, weird, edge_triangle)

\* T is an open surface: no side is on more than 2 triangles of T, chains of
\* triangles sharing an edge join all of T, and some side is on one triangle
\* only.
OpenSurface(T) ==
    /\ T # {}
    /\ \E t \in T : \E side \in Sides(t) : Cardinality({s \in T : side \in Sides(s)}) = 1
    /\ \A t \in T : \A side \in Sides(t) : Cardinality({s \in T : side \in Sides(s)}) <= 2
    /\ ChainClosure({CHOOSE t \in T : TRUE}, T) = T

\* C20: the repair erodes an open surface completely: when the input of
\* remove_unwanted_triangles is an open surface, no removal fails, the
\* worklist is not empty as long as a triangle is left, so the loop ends, and
\* the function returns, with the empty set.
C20_OpenSurfaceEroded ==
    pc \in {"repair", "failed"} =>
        \/ /\ pc # "failed"
           /\ ret # {} => have_free_faces # {}
           /\ have_free_faces = {} => ret = {}
        \/ ~OpenSurface(triangles)

\* C20 witness: the repair has removed every triangle of an open surface of
\* four triangles.
C20_Witness ==
    /\ pc = "repair"
    /\ OpenSurface(triangles)
    /\ Cardinality(triangles) = 4
    /\ ret = {}
    /\ have_free_faces = {}

====
